---- MODULE Spec2Model ----
(***************************************************************************)
(* Model of the MediaMarkt seller scraper.                                 *)
(*                                                                         *)
(*   - the crawl driver of scrape.mjs: main() and scrapeSeller(), with the *)
(*     progress ledger (results/progress.json) and the CSV sink            *)
(*     (results/sellers.csv);                                              *)
(*   - the batch handler of api/scrape-batch.js.                           *)
(*                                                                         *)
(* Every await of the code (a fetch, a sleep) is a step boundary; the      *)
(* synchronous statements between two awaits are one step, except that the *)
(* two file writes of one loop iteration (the CSV append, the ledger        *)
(* flush) are successive steps, since the process can die between them.    *)
(***************************************************************************)
EXTENDS Integers, Sequences, FiniteSets, TLC

(* ---------------------------------------------------------------------- *)
(* Bounds of the model                                                     *)
(* ---------------------------------------------------------------------- *)
\* largest seller ID of the short ranges, explored with every response
MaxId == 3
\* last seller ID of the long range, longer than the flush cadence
LongTo == 12
\* largest seller ID of a batch request
MaxBatchId == 2
\* longest text given to cleanText, in atoms
MaxTextLen == 3
\* most tokens between the anchor of the seller object and what follows it
MaxRestLen == 4
\* deepest nesting of objects inside an embedded seller object
MaxDepth == 2
\* longest string value inside an embedded seller object, in atoms
MaxContentLen == 2
\* most <dt>/<dd> pairs of a page
MaxPairs == 2
\* the re-runs explored: none once the sink holds this many rows
MaxRows == 3

(* ---------------------------------------------------------------------- *)
(* Program constants                                                       *)
(* ---------------------------------------------------------------------- *)
MAX_RETRIES == 3
BACKOFF_UNIT_MS == 5000
SAVE_EVERY == 10

(* ---------------------------------------------------------------------- *)
(* Values                                                                  *)
(* ---------------------------------------------------------------------- *)
\* A JS value that may be null/undefined is a sequence of length 0 or 1.
Nothing == <<>>
Some(v) == <<v>>
\* JS truthiness of an optional string: null, undefined and '' are falsy.
Truthy(opt) == opt # Nothing /\ opt[1] # ""

\* Property key of a numeric id in a JS object (and in the JSON file).
PropKey(n) == ToString(n)

\* The page text, as far as the driver looks at it: whether the <h1> pattern
\* matches and the cleaned text of its content.
Html(hasH1, text) == [h1Match |-> hasH1, h1Text |-> text]
NoHtml == Html(FALSE, "")
Pages == {Html(TRUE, "Shop"), Html(TRUE, ""), NoHtml}

\* What one fetch attempt gives: a response with a status and a body, or a
\* thrown error with a name and a message.
HttpResponse(st, page) ==
    [threw |-> FALSE, status |-> st, html |-> page, name |-> "", message |-> ""]
Thrown(n, msg) ==
    [threw |-> TRUE, status |-> 0, html |-> NoHtml, name |-> n, message |-> msg]

ShopPage == HttpResponse(200, Html(TRUE, "Shop"))
NotFound == HttpResponse(404, NoHtml)
ServerError == HttpResponse(500, NoHtml)
Forbidden == HttpResponse(403, NoHtml)
FetchFailed == Thrown("TypeError", "fetch failed")
TimedOut == Thrown("TimeoutError", "The operation was aborted due to timeout")

Responses ==
    {HttpResponse(200, p) : p \in Pages}
        \cup {NotFound, ServerError, Forbidden, FetchFailed, TimedOut}

\* response.ok
Ok(r) == r.status >= 200 /\ r.status <= 299

\* A failed attempt in the sense of the retry policy.
Failed(r) == r.threw \/ (~Ok(r) /\ r.status # 404)

(* ---------------------------------------------------------------------- *)
(* The ledger                                                              *)
(* ---------------------------------------------------------------------- *)
Entry(st, err) == [status |-> st, error |-> err]
EmptyLedger == [k \in {} |-> Entry("ok", "")]
MutPut(p, key, e) == [k \in {key} |-> e]
Put(p, key, e) == [k \in DOMAIN p \cup {key} |-> IF k = key THEN e ELSE p[k]]
Restrict(p, keys) == [k \in keys |-> p[k]]

\* The file results/progress.json: absent, or the JSON of a ledger.
NoFile == [exists |-> FALSE, data |-> EmptyLedger]
File(p) == [exists |-> TRUE, data |-> p]

loadProgress(file) == IF file.exists THEN file.data ELSE EmptyLedger
saveProgress(p) == File(p)

(* ---------------------------------------------------------------------- *)
(* State                                                                   *)
(* ---------------------------------------------------------------------- *)
VARIABLES
    FROM_ID,    \* --from
    TO_ID,      \* --to
    site,       \* what a fetch of the seller page may give during this run
    durable,    \* results/progress.json
    csv,        \* data rows of results/sellers.csv
    loaded,     \* the ledger as loadProgress() returned it
    csvLoaded,  \* number of rows of the sink when the run started
    progress,   \* main: progress
    id,         \* main: id
    scraped,    \* main: scraped
    result,     \* main: result
    attempt,    \* scrapeSeller: attempt
    outcomes,   \* what the attempts for the current id gave, in order
    sleeps,     \* the backoff sleeps for the current id, in order
    fetched,    \* the ids a fetch was issued for during this run
    pc,         \* where main is
    req,        \* scrape-batch handler: the request
    ids,        \* scrape-batch handler: ids
    i,          \* scrape-batch handler: i
    results,    \* scrape-batch handler: results
    issued,     \* the ids the handler issued a fetch for, in order
    given,      \* what those fetches gave, in order
    answer,     \* the HTTP answer of the handler, once sent
    hpc,        \* where the handler is
    inFlight,   \* crawl and batch: the fetches issued and not yet settled
    timers,     \* crawl and batch: the sleeps started and not yet ended
    paced,      \* crawl: the pacing sleeps started since the last record
    query,      \* scrape handler: the request
    upstream,   \* scrape handler: what its fetch gave
    reply,      \* scrape handler: the HTTP answer, once sent
    spc,        \* where the scrape handler is
    str,        \* cleanText: str
    cleaner,    \* which of the two cleanText functions is applied
    cleaned,    \* what cleanText returned for str, and for what it returned
    page,       \* parseSellerPage: html
    parser,     \* which of the two parseSellerPage functions is applied
    record,     \* what parseSellerPage returned
    source,     \* extractSellerJson: html, as JSON tokens
    embedded,   \* the seller object the page was generated from, if any
    extracted   \* what extractSellerJson gave

crawlVars ==
    <<FROM_ID, TO_ID, site, durable, csv, loaded, csvLoaded, progress, id,
      scraped, result, attempt, outcomes, sleeps, fetched, pc>>

batchVars == <<req, ids, i, results, issued, given, answer, hpc>>

\* the pending awaits of the running driver or handler
awaitVars == <<inFlight, timers, paced>>

singleVars == <<query, upstream, reply, spc>>

\* the components neither the crawl driver nor the batch handler touches
textVars == <<str, cleaner, cleaned>>

extractVars == <<source, embedded, extracted>>

pageVars == <<page, parser, record>>

idleVars == <<singleVars, textVars, extractVars, pageVars>>

vars == <<crawlVars, batchVars, awaitVars, idleVars>>

NoResult == [sellerId |-> 0, error |-> Nothing, businessName |-> Nothing]

(* ---------------------------------------------------------------------- *)
(* lib/parse.js, as far as the driver uses it                              *)
(* ---------------------------------------------------------------------- *)
\* businessName = h1Match ? cleanText(h1Match[1]) : ''
parseSellerPage(html, sellerId) ==
    [sellerId |-> sellerId,
     error |-> Nothing,
     businessName |-> Some(IF html.h1Match THEN html.h1Text ELSE "")]

(* ---------------------------------------------------------------------- *)
(* scrapeSeller                                                            *)
(* ---------------------------------------------------------------------- *)
MutIsNotFound(r) == FALSE
IsNotFound(r) == r.status = 404

MutCanRetry(n) == n <= MAX_RETRIES
CanRetry(n) == n < MAX_RETRIES

MutBackoffMs(n) == BACKOFF_UNIT_MS
BackoffMs(n) == BACKOFF_UNIT_MS * n

\* `HTTP ${response.status}` and err.message
FailureText(r) ==
    IF r.threw THEN r.message ELSE "HTTP " \o ToString(r.status)

\* One pass through the body of the attempt loop, given what the fetch gave:
\* either the value scrapeSeller returns, or the sleep before the next pass.
AttemptStep(r, n, sellerId) ==
    IF ~r.threw /\ IsNotFound(r)
    THEN [return |-> TRUE, sleep |-> 0,
          value |-> [sellerId |-> sellerId, error |-> Nothing,
                     businessName |-> Some("")]]
    ELSE IF ~r.threw /\ Ok(r)
    THEN [return |-> TRUE, sleep |-> 0,
          value |-> parseSellerPage(r.html, sellerId)]
    ELSE IF CanRetry(n)
    THEN [return |-> FALSE, sleep |-> BackoffMs(n), value |-> NoResult]
    ELSE [return |-> TRUE, sleep |-> 0,
          value |-> [sellerId |-> sellerId, error |-> Some(FailureText(r)),
                     businessName |-> Nothing]]

(* ---------------------------------------------------------------------- *)
(* main                                                                    *)
(* ---------------------------------------------------------------------- *)
MutAlreadyScraped(p, n) == PropKey(n) \in DOMAIN p /\ p[PropKey(n)].status = "ok"
\* if (progress[id]): every entry of a ledger is an object, hence truthy
AlreadyScraped(p, n) == PropKey(n) \in DOMAIN p

MutOutcome(res) ==
    IF Truthy(res.error) THEN Entry("error", res.error[1]) ELSE Entry("ok", "")
\* the ledger entry main writes for a result
Outcome(res) ==
    IF Truthy(res.error) THEN Entry("error", res.error[1])
    ELSE IF ~Truthy(res.businessName) THEN Entry("empty", "")
    ELSE Entry("ok", "")

\* the row appendCsvRow writes, by its first two columns
CsvRow(res) ==
    [sellerId |-> res.sellerId,
     businessName |-> IF res.businessName = Nothing THEN "" ELSE res.businessName[1]]

MutShouldSave(n) == n % (2 * SAVE_EVERY) = 0
ShouldSave(n) == n % SAVE_EVERY = 0

(* ---------------------------------------------------------------------- *)
(* api/scrape-batch.js                                                     *)
(* ---------------------------------------------------------------------- *)
MAX_BATCH_SIZE == 5

\* An element of the sellerIds array: a number, or a string without digits.
Num(n) == [isNum |-> TRUE, n |-> n]
NotANumber == [isNum |-> FALSE, n |-> 0]

\* parseInt(id, 10): Nothing stands for NaN
parseInt10(item) == IF item.isNum THEN Some(item.n) ELSE Nothing

NoAnswer == [status |-> 0, error |-> "", results |-> <<>>]
Answer(code, msg, rs) == [status |-> code, error |-> msg, results |-> rs]

\* lines 20-41: the answer that rejects the request, or NoAnswer
Rejection(r) ==
    IF r.method # "POST" THEN Answer(405, "Method not allowed. Use POST.", <<>>)
    ELSE IF ~r.isArray \/ Len(r.sellerIds) = 0
    THEN Answer(400, "sellerIds must be a non-empty array of integers", <<>>)
    ELSE IF Len(r.sellerIds) > MAX_BATCH_SIZE
    THEN Answer(400, "Maximum batch size is " \o ToString(MAX_BATCH_SIZE), <<>>)
    ELSE IF \E k \in 1..Len(r.sellerIds) :
                \/ parseInt10(r.sellerIds[k]) = Nothing
                \/ parseInt10(r.sellerIds[k])[1] < 1
    THEN Answer(400, "All sellerIds must be positive integers", <<>>)
    ELSE NoAnswer

MutBatchItem(r, sellerId) ==
    IF r.threw
    THEN [sellerId |-> sellerId, error |-> Some(r.message), businessName |-> Nothing]
    ELSE IF ~Ok(r)
    THEN [sellerId |-> sellerId, error |-> Some("HTTP " \o ToString(r.status)),
          businessName |-> Nothing]
    ELSE [sellerId |-> 0, error |-> Nothing, businessName |-> Some(r.html.h1Text)]
\* lines 50-75: the element pushed to results for one id
BatchItem(r, sellerId) ==
    IF r.threw
    THEN [sellerId |-> sellerId,
          error |-> Some(IF r.name = "TimeoutError" THEN "Timeout" ELSE r.message),
          businessName |-> Nothing]
    ELSE IF ~Ok(r)
    THEN [sellerId |-> sellerId, error |-> Some("HTTP " \o ToString(r.status)),
          businessName |-> Nothing]
    ELSE parseSellerPage(r.html, sellerId)

\* no request is being handled
BatchOff ==
    /\ req = [method |-> "", isArray |-> FALSE, sellerIds |-> <<>>]
    /\ ids = <<>>
    /\ i = 0
    /\ results = <<>>
    /\ issued = <<>>
    /\ given = <<>>
    /\ answer = NoAnswer
    /\ hpc = "off"

\* no fetch is in flight, no sleep is pending
NoAwait ==
    /\ inFlight = 0
    /\ timers = 0
    /\ paced = 0

(* ---------------------------------------------------------------------- *)
(* api/scrape.js: the handler of one seller ID                             *)
(* ---------------------------------------------------------------------- *)
\* req.method and req.query.sellerId; an absent parameter is Nothing
Query(m, sid) == [method |-> m, sellerId |-> sid]

NoReply == [status |-> 0, error |-> "", sellerId |-> Nothing, data |-> NoResult]
Reply(code, msg, sid, d) ==
    [status |-> code, error |-> msg, sellerId |-> sid, data |-> d]

\* lines 16-29: the answer that rejects the request, or NoReply
Refusal(q) ==
    IF q.method # "GET" THEN Reply(405, "Method not allowed", Nothing, NoResult)
    ELSE IF q.sellerId = Nothing
    THEN Reply(400, "sellerId query parameter is required", Nothing, NoResult)
    ELSE IF \/ parseInt10(q.sellerId[1]) = Nothing
            \/ parseInt10(q.sellerId[1])[1] < 1
    THEN Reply(400, "sellerId must be a positive integer", Nothing, NoResult)
    ELSE NoReply

\* every thrown error is answered alike
MutScrapeReply(r, sellerId) ==
    IF r.threw
    THEN Reply(500, r.message, Some(sellerId), NoResult)
    ELSE IF ~Ok(r)
    THEN Reply(r.status, "MediaMarkt returned HTTP " \o ToString(r.status),
               Some(sellerId), NoResult)
    ELSE Reply(200, "", Nothing, parseSellerPage(r.html, sellerId))
\* lines 31-50: the answer once the fetch has returned or thrown
ScrapeReply(r, sellerId) ==
    IF r.threw
    THEN IF r.name = "TimeoutError"
         THEN Reply(504, "Request to MediaMarkt timed out", Some(sellerId), NoResult)
         ELSE Reply(500, r.message, Some(sellerId), NoResult)
    ELSE IF ~Ok(r)
    THEN Reply(r.status, "MediaMarkt returned HTTP " \o ToString(r.status),
               Some(sellerId), NoResult)
    ELSE Reply(200, "", Nothing, parseSellerPage(r.html, sellerId))

\* no request is being handled
SingleOff ==
    /\ query = Query("", Nothing)
    /\ upstream = Nothing
    /\ reply = NoReply
    /\ spc = "off"

(* ---------------------------------------------------------------------- *)
(* Text                                                                    *)
(* ---------------------------------------------------------------------- *)
\* A string is a sequence of atoms. An atom is one character, or a group of
\* characters that the strings explored hold only as a whole: the tail of
\* an entity such as "amp;", the six characters of an escaped slash, a word.
EntityTails == {"amp;", "lt;", "gt;", "quot;", "#39;", "nbsp;"}
EscapedSlash == "\\u002F"

\* str.replace(/<[^>]+>/g, ''): index of the first ">" of s after its head,
\* 0 when there is none
FirstClose(s) ==
    IF \E k \in 2..Len(s) : s[k] = ">"
    THEN CHOOSE k \in 2..Len(s) : s[k] = ">" /\ \A j \in 2..(k - 1) : s[j] # ">"
    ELSE 0

RECURSIVE StripTags(_)
StripTags(s) ==
    IF s = <<>> THEN <<>>
    ELSE IF Head(s) = "<" /\ FirstClose(s) > 2
    THEN StripTags(SubSeq(s, FirstClose(s) + 1, Len(s)))
    ELSE <<Head(s)>> \o StripTags(Tail(s))

\* str.replace(/&tail/g, to), for the entity "&" tail
RECURSIVE ReplaceEntity(_, _, _)
ReplaceEntity(s, tail, to) ==
    IF s = <<>> THEN <<>>
    ELSE IF Len(s) >= 2 /\ s[1] = "&" /\ s[2] = tail
    THEN <<to>> \o ReplaceEntity(SubSeq(s, 3, Len(s)), tail, to)
    ELSE <<Head(s)>> \o ReplaceEntity(Tail(s), tail, to)

\* str.replace(/\\u002F/g, '/')
ReplaceSlash(s) ==
    [k \in 1..Len(s) |-> IF s[k] = EscapedSlash THEN "/" ELSE s[k]]

\* str.replace(/\s+/g, ' ')
RECURSIVE CollapseSpaces(_)
CollapseSpaces(s) ==
    IF s = <<>> THEN <<>>
    ELSE IF Len(s) >= 2 /\ s[1] = " " /\ s[2] = " "
    THEN CollapseSpaces(Tail(s))
    ELSE <<Head(s)>> \o CollapseSpaces(Tail(s))

\* str.trim()
RECURSIVE Trim(_)
Trim(s) ==
    IF s = <<>> THEN <<>>
    ELSE IF Head(s) = " " THEN Trim(Tail(s))
    ELSE IF s[Len(s)] = " " THEN Trim(SubSeq(s, 1, Len(s) - 1))
    ELSE s

\* lines 45-51 of unnamed/part_002, lines 4-10 of lib/parse.js
DecodeEntities(s) ==
    LET amp  == ReplaceEntity(s, "amp;", "&")
        lt   == ReplaceEntity(amp, "lt;", "<")
        gt   == ReplaceEntity(lt, "gt;", ">")
        quot == ReplaceEntity(gt, "quot;", "\"")
        apos == ReplaceEntity(quot, "#39;", "'")
    IN  ReplaceEntity(apos, "nbsp;", " ")

\* unnamed/part_002, lines 43-56
cleanText(s) ==
    IF s = <<>> THEN <<>>
    ELSE Trim(CollapseSpaces(ReplaceSlash(DecodeEntities(StripTags(s)))))

\* lib/parse.js, lines 1-13
cleanTextLib(s) ==
    IF s = <<>> THEN <<>>
    ELSE Trim(CollapseSpaces(DecodeEntities(StripTags(s))))

\* cleanText is not being applied
TextOff ==
    /\ str = <<>>
    /\ cleaner = "off"
    /\ cleaned = <<>>

(* ---------------------------------------------------------------------- *)
(* The embedded state of the page and extractSellerJson                    *)
(* ---------------------------------------------------------------------- *)
\* The script text is a sequence of JSON tokens without white space, as
\* the page serializes it: a punctuation character, or a string literal
\* with its content between the quotes (a string of atoms, which may hold
\* braces and escaped slashes). A literal cut before its closing quote is
\* what substring() leaves when it ends inside a literal.
Punct(c) == [t |-> c, s |-> <<>>]
Lit(content) == [t |-> "str", s |-> content]
Cut(content) == [t |-> "cut", s |-> content]
Word(word) == Lit(<<word>>)

Digits == {"7"}
GraphqlNames == {"GraphqlMarketplaceSeller", "GraphqlSellerContact"}

\* A JSON value: a string or an object, its members in source order; Null
\* is JS null.
Null == [kind |-> "null", text |-> <<>>, members |-> <<>>]
StrVal(text) == [kind |-> "string", text |-> text, members |-> <<>>]
ObjVal(ms) == [kind |-> "object", text |-> <<>>, members |-> ms]
Member(k, v) == [key |-> k, value |-> v]

\* JSON.parse of a string literal: the escape \u002F is a slash
Unescape(content) ==
    [k \in 1..Len(content) |-> IF content[k] = EscapedSlash THEN "/" ELSE content[k]]

ParseFail == [ok |-> FALSE, v |-> Null, next |-> 0]
Parsed(val, n) == [ok |-> TRUE, v |-> val, next |-> n]

\* JSON.parse: the value that starts at token k, and the members of an
\* object from token k on
RECURSIVE ParseValue(_, _)
RECURSIVE ParseMembers(_, _, _)
ParseValue(toks, k) ==
    IF k > Len(toks) THEN ParseFail
    ELSE IF toks[k].t = "str" THEN Parsed(StrVal(Unescape(toks[k].s)), k + 1)
    ELSE IF toks[k].t = "{"
    THEN IF k + 1 <= Len(toks) /\ toks[k + 1].t = "}"
         THEN Parsed(ObjVal(<<>>), k + 2)
         ELSE ParseMembers(toks, k + 1, <<>>)
    ELSE ParseFail

ParseMembers(toks, k, acc) ==
    IF k + 1 > Len(toks) \/ toks[k].t # "str" \/ toks[k + 1].t # ":" THEN ParseFail
    ELSE LET r == ParseValue(toks, k + 2)
             ms == Append(acc, Member(Unescape(toks[k].s), r.v))
         IN  IF ~r.ok \/ r.next > Len(toks) THEN ParseFail
             ELSE IF toks[r.next].t = "}" THEN Parsed(ObjVal(ms), r.next + 1)
             ELSE IF toks[r.next].t = "," THEN ParseMembers(toks, r.next + 1, ms)
             ELSE ParseFail

\* JSON.parse(text): the value, or a SyntaxError
JSONparse(toks) ==
    LET r == ParseValue(toks, 1)
    IN  IF r.ok /\ r.next = Len(toks) + 1
        THEN [threw |-> FALSE, value |-> r.v]
        ELSE [threw |-> TRUE, value |-> Null]

\* line 65, the anchor: "__typename":"GraphqlMarketplaceSeller","id":"(\d+)",
\* "name":"([^"]*)" matches the eleven tokens from a on
AnchorAt(toks, a) ==
    /\ a + 10 <= Len(toks)
    /\ toks[a] = Word("__typename")
    /\ toks[a + 1] = Punct(":")
    /\ toks[a + 2] = Word("GraphqlMarketplaceSeller")
    /\ toks[a + 3] = Punct(",")
    /\ toks[a + 4] = Word("id")
    /\ toks[a + 5] = Punct(":")
    /\ toks[a + 6].t = "str"
    /\ toks[a + 6].s # <<>>
    /\ \A k \in 1..Len(toks[a + 6].s) : toks[a + 6].s[k] \in Digits
    /\ toks[a + 7] = Punct(",")
    /\ toks[a + 8] = Word("name")
    /\ toks[a + 9] = Punct(":")
    /\ toks[a + 10].t = "str"

\* line 65, the lookahead: "optimizelyDataFile", or "__typename":" not
\* followed by Graphql, starts at token j
LookaheadAt(toks, j) ==
    /\ j <= Len(toks)
    /\ \/ toks[j] = Word("optimizelyDataFile")
       \/ /\ j + 2 <= Len(toks)
          /\ toks[j] = Word("__typename")
          /\ toks[j + 1] = Punct(":")
          /\ toks[j + 2].t = "str"
          /\ \/ toks[j + 2].s = <<>>
             \/ toks[j + 2].s[1] \notin GraphqlNames

\* the least number of a set of numbers
Least(nums) == CHOOSE n \in nums : \A o \in nums : n <= o

\* html.match(...): the leftmost anchor that a lookahead follows, with the
\* first lookahead after it (.*? is lazy); a = 0 when nothing matches
sellerMatch(toks) ==
    LET ends == {j \in 12..Len(toks) : LookaheadAt(toks, j)}
        starts == {a \in 1..(Len(toks) - 11) :
                      AnchorAt(toks, a) /\ \E j \in ends : j >= a + 11}
    IN  IF starts = {} THEN [a |-> 0, j |-> 0]
        ELSE [a |-> Least(starts),
              j |-> Least({j \in ends : j >= Least(starts) + 11})]

\* line 71: the candidate text, from a new opening brace to the lookahead
jsonStr(toks, m) == <<Punct("{")>> \o SubSeq(toks, m.a, m.j - 1)

\* lines 74-85: every brace character counts, those of the literals too.
\* The scan is at atom c of token k (at the token itself when it is no
\* literal); it gives where the depth is back to zero, k = 0 if nowhere.
NoEnd == [k |-> 0, c |-> 0]
RECURSIVE BraceScan(_, _, _, _)
BraceScan(js, k, c, depth) ==
    IF k > Len(js) THEN NoEnd
    ELSE IF js[k].t = "str"
    THEN IF c > Len(js[k].s) THEN BraceScan(js, k + 1, 1, depth)
         ELSE IF js[k].s[c] = "{" THEN BraceScan(js, k, c + 1, depth + 1)
         ELSE IF js[k].s[c] = "}"
         THEN IF depth - 1 = 0 THEN [k |-> k, c |-> c]
              ELSE BraceScan(js, k, c + 1, depth - 1)
         ELSE BraceScan(js, k, c + 1, depth)
    ELSE IF js[k].t = "{" THEN BraceScan(js, k + 1, 1, depth + 1)
    ELSE IF js[k].t = "}"
    THEN IF depth - 1 = 0 THEN [k |-> k, c |-> 0]
         ELSE BraceScan(js, k + 1, 1, depth - 1)
    ELSE BraceScan(js, k + 1, 1, depth)

\* line 90: jsonStr.substring(0, end)
Substring(js, end) ==
    IF end.c = 0 THEN SubSeq(js, 1, end.k)
    ELSE SubSeq(js, 1, end.k - 1) \o <<Cut(SubSeq(js[end.k].s, 1, end.c))>>

Returned(val) == [done |-> TRUE, threw |-> FALSE, value |-> val]
Raised == [done |-> TRUE, threw |-> TRUE, value |-> Null]
NotExtracted == [done |-> FALSE, threw |-> FALSE, value |-> Null]

\* the SyntaxError of JSON.parse is not caught
MutExtractSellerJson(toks) ==
    LET m == sellerMatch(toks)
        js == jsonStr(toks, m)
        end == BraceScan(js, 1, 1, 0)
        parsed == JSONparse(Substring(js, end))
    IN  IF m.a = 0 THEN Returned(Null)
        ELSE IF end = NoEnd THEN Returned(Null)
        ELSE IF parsed.threw THEN Raised
        ELSE Returned(parsed.value)
\* lines 62-94
extractSellerJson(toks) ==
    LET m == sellerMatch(toks)
        js == jsonStr(toks, m)
        end == BraceScan(js, 1, 1, 0)
        parsed == JSONparse(Substring(js, end))
    IN  IF m.a = 0 THEN Returned(Null)
        ELSE IF end = NoEnd THEN Returned(Null)
        ELSE IF parsed.threw THEN Returned(Null)
        ELSE Returned(parsed.value)

\* extractSellerJson is not being applied
ExtractOff ==
    /\ source = <<>>
    /\ embedded = Null
    /\ extracted = NotExtracted

(* ---------------------------------------------------------------------- *)
(* The page and parseSellerPage                                            *)
(* ---------------------------------------------------------------------- *)
\* The page is its script (the embedded JSON), the content of its first
\* <h1>, the target of its first tel: link, its <dt>/<dd> pairs in document
\* order and its remaining text; h1 and tel are absent or one string.
Page(script, h1, tel, dl, text) ==
    [script |-> script, h1 |-> h1, tel |-> tel, dl |-> dl, text |-> text]
Pair(dt, dd) == [dt |-> dt, dd |-> dd]

\* the atoms of the strings explored: words of letters, digits and hyphens,
\* and top-level domains; a word that starts with two letters
LetterWords ==
    {"info", "shop", "NoReply", "noreply", "ops", "sentry", "mediamarkt",
     "undefined", "null", "Shop", "Fax", "NL123B01", "KvK", "BTW"}
DigitWords == {"020", "030", "12345678", "87654321"}
Words == LetterWords \cup DigitWords
Tlds == {".nl", ".io"}

\* str.includes(sub)
Includes(s, sub) ==
    \E k \in 0..(Len(s) - Len(sub)) : SubSeq(s, k + 1, k + Len(sub)) = sub

\* str.toLowerCase()
ToLowerCase(s) ==
    [k \in 1..Len(s) |-> CASE s[k] = "NoReply" -> "noreply"
                           [] s[k] = "Shop" -> "shop"
                           [] s[k] = "Fax" -> "fax"
                           [] s[k] = "KvK" -> "kvk"
                           [] s[k] = "BTW" -> "btw"
                           [] s[k] = "NL123B01" -> "nl123b01"
                           [] OTHER -> s[k]]

\* the end of the longest run of atoms of the set that starts at k (k - 1
\* when s[k] is not of the set)
RECURSIVE RunEnd(_, _, _)
RunEnd(s, k, atoms) ==
    IF k <= Len(s) /\ s[k] \in atoms THEN RunEnd(s, k + 1, atoms) ELSE k - 1

\* html.match(/[a-zA-Z0-9._%+-]+@[a-zA-Z0-9.-]+\.[a-zA-Z]{2,}/g) from atom k
\* on: a run of words and domains, "@", and a run that holds a top-level
\* domain after its first atom
RECURSIVE EmailScan(_, _)
EmailScan(s, k) ==
    IF k > Len(s) THEN <<>>
    ELSE IF s[k] \notin Words \cup Tlds THEN EmailScan(s, k + 1)
    ELSE LET local == RunEnd(s, k, Words \cup Tlds)
             domain == RunEnd(s, local + 2, Words \cup Tlds)
         IN  IF /\ local + 1 <= Len(s)
                /\ s[local + 1] = "@"
                /\ \E d \in (local + 3)..domain : s[d] \in Tlds
                /\ s[domain] \in Tlds \cup LetterWords
             THEN <<SubSeq(s, k, domain)>> \o EmailScan(s, domain + 1)
             ELSE EmailScan(s, local + 1)

\* the markup between two fragments of the page
Markup == "</>"

\* the text of the script: its literals between quotes
RECURSIVE ScriptText(_)
ScriptText(toks) ==
    IF toks = <<>> THEN <<>>
    ELSE (IF Head(toks).t = "str" THEN <<"\"">> \o Head(toks).s \o <<"\"">>
          ELSE <<Head(toks).t>>) \o ScriptText(Tail(toks))

RECURSIVE DlText(_)
DlText(dl) ==
    IF dl = <<>> THEN <<>>
    ELSE <<Markup>> \o Head(dl).dt \o <<Markup>> \o Head(dl).dd \o <<Markup>>
            \o DlText(Tail(dl))

\* html, as far as the email pattern looks at it
PageText(pg) ==
    (IF pg.h1 = Nothing THEN <<>> ELSE <<Markup>> \o pg.h1[1] \o <<Markup>>)
        \o (IF pg.tel = Nothing THEN <<>> ELSE <<Markup>> \o pg.tel[1] \o <<Markup>>)
        \o DlText(pg.dl) \o pg.text \o <<Markup>> \o ScriptText(pg.script)

\* obj?.key: the value of the last member of that name, Null without one
Get(val, key) ==
    IF \E k \in 1..Len(val.members) : val.members[k].key = <<key>>
    THEN val.members[CHOOSE k \in 1..Len(val.members) :
                        /\ val.members[k].key = <<key>>
                        /\ \A j \in (k + 1)..Len(val.members) :
                               val.members[j].key # <<key>>].value
    ELSE Null

\* obj?.key || '' for a member that is a string
TextAt(val, key) == Get(val, key).text

\* lines 178-197 of unnamed/part_002
excludePatterns ==
    {<<"sentry", ".io">>, <<"analytics">>, <<"tracking">>, <<"monitoring">>,
     <<"noreply">>, <<"no-reply">>, <<"donotreply">>, <<"privacy", "@">>,
     <<"mediamarkt", ".nl">>, <<"mediamarkt", ".de">>, <<"mediamarkt", ".at">>,
     <<"mediamarkt", ".es">>, <<"mediamarkt", ".it">>, <<"mediamarkt", ".be">>,
     <<"mediamarkt", ".com">>, <<"placeholder">>, <<"example", ".com">>,
     <<"jan", ".janssen">>}

\* lines 93-109 of lib/parse.js
excludePatternsLib ==
    {<<"sentry", ".io">>, <<"analytics">>, <<"tracking">>, <<"monitoring">>,
     <<"noreply">>, <<"no-reply">>, <<"donotreply">>, <<"privacy", "@">>,
     <<"info", "@", "mediamarkt">>, <<"support", "@", "mediamarkt">>,
     <<"contact", "@", "mediamarkt">>, <<"service", "@", "mediamarkt">>,
     <<"help", "@", "mediamarkt">>, <<"customerservice", "@", "mediamarkt">>,
     <<"klantenservice", "@", "mediamarkt">>}

\* lower.includes(p) for some p of the list
HasExcluded(addr, patterns) ==
    \E pat \in patterns : Includes(ToLowerCase(addr), pat)

\* the filter of the scan: no excluded pattern, and /^\\u/ does not match
RECURSIVE Filter(_, _)
Filter(addrs, patterns) ==
    IF addrs = <<>> THEN <<>>
    ELSE (IF ~HasExcluded(Head(addrs), patterns) /\ Head(addrs)[1] # EscapedSlash
          THEN <<Head(addrs)>> ELSE <<>>) \o Filter(Tail(addrs), patterns)

\* filteredEmails.length > 0 ? filteredEmails[0] : ''
ScannedEmail(pg, patterns) ==
    LET filteredEmails == Filter(EmailScan(PageText(pg), 1), patterns)
    IN  IF filteredEmails = <<>> THEN <<>> ELSE filteredEmails[1]

emailLabels ==
    <<<<"E-mail", "adres">>, <<"Email", " ", "address">>, <<"E-Mail-Adresse">>,
      <<"Email">>, <<"E-mail">>>>

\* lines 158-170 of unnamed/part_002: the first pair whose label includes an
\* email label and whose value includes '@'
RECURSIVE LabeledEmail(_)
LabeledEmail(dl) ==
    IF dl = <<>> THEN <<>>
    ELSE IF /\ \E k \in 1..Len(emailLabels) :
                  Includes(cleanText(Head(dl).dt), emailLabels[k])
            /\ Includes(cleanText(Head(dl).dd), <<"@">>)
    THEN cleanText(Head(dl).dd)
    ELSE LabeledEmail(Tail(dl))

\* lines 145-152 of unnamed/part_002: the tel: link, unless it is a sentinel
TelPhone(pg) ==
    IF pg.tel = Nothing THEN <<>>
    ELSE IF Trim(pg.tel[1]) \in {<<>>, <<"undefined">>, <<"null">>} THEN <<>>
    ELSE Trim(pg.tel[1])

NoExtras == [k \in {} |-> <<>>]

\* lines 207-217 of unnamed/part_002, lines 32-42 of lib/parse.js: the pairs
\* with a label and a value go to sellerDataSection, in document order
RECURSIVE Harvest(_, _, _)
Harvest(dl, section, full) ==
    IF dl = <<>> THEN section
    ELSE LET key == IF full THEN cleanText(Head(dl).dt) ELSE cleanTextLib(Head(dl).dt)
             value == IF full THEN cleanText(Head(dl).dd) ELSE cleanTextLib(Head(dl).dd)
         IN  Harvest(Tail(dl),
                     IF key # <<>> /\ value # <<>>
                     THEN Put(section, key, value) ELSE section,
                     full)

\* findValue(patterns): the value of the first label of the list that
\* sellerDataSection holds
RECURSIVE findValue(_, _)
findValue(section, patterns) ==
    IF patterns = <<>> THEN <<>>
    ELSE IF Head(patterns) \in DOMAIN section THEN section[Head(patterns)]
    ELSE findValue(section, Tail(patterns))

companyNamePatterns ==
    <<<<"Officiële bedrijfsnaam">>, <<"Official company name">>,
      <<"Offizieller Firmenname">>, <<"Firmenname">>>>
addressPatterns ==
    <<<<"Kantooradres">>, <<"Office address">>, <<"Geschäftsadresse">>, <<"Adresse">>>>
zipCodePatterns == <<<<"Postcode">>, <<"ZIP code">>, <<"Postleitzahl">>, <<"PLZ">>>>
cityPatterns == <<<<"Plaats">>, <<"City">>, <<"Stadt">>, <<"Ort">>>>
kvkPatterns ==
    <<<<"Kamer van Koophandel nummer">>, <<"Chamber of Commerce number">>,
      <<"Handelskammernummer">>>>
vatPatterns ==
    <<<<"BTW-nummer">>, <<"VAT number">>, <<"USt-IdNr">>,
      <<"Umsatzsteuer-Identifikationsnummer">>>>
emailPatterns ==
    <<<<"E-mail", "adres">>, <<"Email", " ", "address">>, <<"E-Mail-Adresse">>,
      <<"Email">>, <<"E-mail">>>>

\* text.match(/(?:words)[skipped]*(capture)/i): the capture of the leftmost
\* match from atom k on, '' without a match. The capture is a run of words
\* (that starts with a word of the set led).
RECURSIVE Capture(_, _, _, _, _)
Capture(text, k, names, skipped, led) ==
    IF k > Len(text) THEN <<>>
    ELSE LET from == RunEnd(text, k + 1, skipped) + 1
             to == RunEnd(text, from, Words)
         IN  IF text[k] \in names /\ to >= from /\ text[from] \in led
             THEN SubSeq(text, from, to)
             ELSE Capture(text, k + 1, names, skipped, led)

\* lines 100-118 of unnamed/part_002
parseImprint(imprint) ==
    IF imprint = <<>>
    THEN [kvkNumber |-> <<>>, vatNumber |-> <<>>, imprintText |-> <<>>]
    ELSE LET text == cleanText(imprint)
         IN  [kvkNumber |->
                  Trim(Capture(text, 1,
                               {"KvK", "Kamer van Koophandel", "Chamber of Commerce",
                                "Handelsregister"},
                               {":", " "}, Words)),
              vatNumber |->
                  Trim(Capture(text, 1, {"BTW", "VAT", "USt-IdNr", "Umsatzsteuer"},
                               {":", " ", "-"}, LetterWords)),
              imprintText |-> text]

\* a later source is preferred to an earlier one
MutOrElse(value, fallback) == IF fallback # <<>> THEN fallback ELSE value
\* value || fallback, and: if (!value) value = fallback
OrElse(value, fallback) == IF value # <<>> THEN value ELSE fallback

\* if (value) section[label] = value
PutIf(section, label, value) ==
    IF value # <<>> THEN Put(section, <<label>>, value) ELSE section

NoRecord ==
    [sellerId |-> 0, businessName |-> <<>>, email |-> <<>>, phone |-> <<>>,
     companyName |-> <<>>, address |-> <<>>, zipCode |-> <<>>, city |-> <<>>,
     kvkNumber |-> <<>>, vatNumber |-> <<>>, sellerDataSection |-> NoExtras]

\* lines 120-297 of unnamed/part_002, without the rating; the pages
\* explored embed no dsaConsent and no sellerShippingDetails
parseSellerPageFull(pg, sellerId) ==
    LET sellerJson == extractSellerJson(pg.script).value
        contactInfo == Get(sellerJson, "contactInfoForCustomers")
        legalInfo == Get(sellerJson, "legalInformation")
        imprintData == parseImprint(TextAt(legalInfo, "imprint"))
        harvested == Harvest(pg.dl, NoExtras, TRUE)
        fromJson ==
            PutIf(PutIf(PutIf(PutIf(PutIf(PutIf(harvested,
                "Seller State", TextAt(sellerJson, "state")),
                "Fax", TextAt(Get(sellerJson, "contactInformation"), "fax")),
                "Service Hours", TextAt(contactInfo, "serviceHours")),
                "General Terms URL", TextAt(legalInfo, "generalBusinessTermsUrl")),
                "Imprint", imprintData.imprintText),
                "Data Protection", TextAt(sellerJson, "dataProtectionInformation"))
    IN  [sellerId |-> sellerId,
         businessName |->
             OrElse(TextAt(sellerJson, "name"),
                    IF pg.h1 = Nothing THEN <<>> ELSE cleanText(pg.h1[1])),
         email |->
             OrElse(OrElse(TextAt(contactInfo, "email"), LabeledEmail(pg.dl)),
                    ScannedEmail(pg, excludePatterns)),
         phone |-> OrElse(TextAt(contactInfo, "phone"), TelPhone(pg)),
         companyName |-> findValue(harvested, companyNamePatterns),
         address |-> findValue(harvested, addressPatterns),
         zipCode |-> findValue(harvested, zipCodePatterns),
         city |-> findValue(harvested, cityPatterns),
         kvkNumber |-> OrElse(findValue(harvested, kvkPatterns), imprintData.kvkNumber),
         vatNumber |-> OrElse(findValue(harvested, vatPatterns), imprintData.vatNumber),
         sellerDataSection |-> IF sellerJson = Null THEN harvested ELSE fromJson]

\* lines 15-139 of lib/parse.js, without the rating
parseSellerPageLib(pg, sellerId) ==
    LET harvested == Harvest(pg.dl, NoExtras, FALSE)
    IN  [sellerId |-> sellerId,
         businessName |-> IF pg.h1 = Nothing THEN <<>> ELSE cleanTextLib(pg.h1[1]),
         email |->
             OrElse(findValue(harvested, emailPatterns),
                    ScannedEmail(pg, excludePatternsLib)),
         phone |-> IF pg.tel = Nothing THEN <<>> ELSE Trim(pg.tel[1]),
         companyName |-> findValue(harvested, companyNamePatterns),
         address |-> findValue(harvested, addressPatterns),
         zipCode |-> findValue(harvested, zipCodePatterns),
         city |-> findValue(harvested, cityPatterns),
         kvkNumber |-> findValue(harvested, kvkPatterns),
         vatNumber |-> findValue(harvested, vatPatterns),
         sellerDataSection |-> harvested]

\* parseSellerPage is not being applied
PageOff ==
    /\ page = Page(<<>>, Nothing, Nothing, <<>>, <<>>)
    /\ parser = "off"
    /\ record = NoRecord

IdleOff ==
    /\ SingleOff
    /\ TextOff
    /\ ExtractOff
    /\ PageOff

(* ---------------------------------------------------------------------- *)
(* The runs explored                                                       *)
(* ---------------------------------------------------------------------- *)
Keys(S) == {PropKey(n) : n \in S}

\* The ledgers an earlier run can have left over the ids S.
LeftLedgers(S) ==
    UNION {[Keys(D) -> {Entry("ok", ""), Entry("empty", ""),
                        Entry("error", "HTTP 500")}] : D \in SUBSET S}

RECURSIVE OkRows(_, _, _)
\* The rows an earlier run appended: one per id recorded ok, in id order.
OkRows(p, n, last) ==
    IF n > last THEN <<>>
    ELSE (IF PropKey(n) \in DOMAIN p /\ p[PropKey(n)].status = "ok"
          THEN <<[sellerId |-> n, businessName |-> "Shop"]>> ELSE <<>>)
         \o OkRows(p, n + 1, last)

\* Short ranges, any ledger left by an earlier run, any response.
ShortRanges == {<<1, MaxId - 1>>, <<1, MaxId>>, <<2, MaxId>>, <<2, 1>>}

ShortRuns ==
    {[from |-> r[1], to |-> r[2], file |-> d, site |-> Responses] :
        r \in ShortRanges,
        d \in {NoFile} \cup {File(p) : p \in LeftLedgers(1..MaxId)}}

\* A fresh run over a range longer than the flush cadence.
LongRuns ==
    {[from |-> 1, to |-> LongTo, file |-> NoFile, site |-> s] :
        s \in {{ShopPage, NotFound}, {ShopPage, TimedOut}}}

Runs == ShortRuns \cup LongRuns

\* main, lines 66-90: the state when the loop is entered
Init ==
    /\ BatchOff
    /\ NoAwait
    /\ IdleOff
    /\ \E run \in Runs :
        /\ FROM_ID = run.from
        /\ TO_ID = run.to
        /\ site = run.site
        /\ durable = run.file
        /\ csv = OkRows(run.file.data, 1, MaxId)
        /\ csvLoaded = Len(OkRows(run.file.data, 1, MaxId))
        /\ loaded = loadProgress(run.file)
        /\ progress = loadProgress(run.file)
        /\ id = run.from
        /\ scraped = 0
        /\ result = NoResult
        /\ attempt = 0
        /\ outcomes = <<>>
        /\ sleeps = <<>>
        /\ fetched = {}
        /\ pc = "loop"

config == <<FROM_ID, TO_ID, site, loaded, csvLoaded>>

\* lines 92-95: the id is in the ledger
Skip ==
    /\ pc = "loop"
    /\ id <= TO_ID
    /\ AlreadyScraped(progress, id)
    /\ id' = id + 1
    /\ UNCHANGED <<idleVars, batchVars, awaitVars, config, durable, csv, progress,
                   scraped, result, attempt, outcomes, sleeps, fetched, pc>>

\* lines 97-98 and 138-143: scrapeSeller is called and issues its first fetch
StartScrape ==
    /\ pc = "loop"
    /\ id <= TO_ID
    /\ ~AlreadyScraped(progress, id)
    /\ scraped' = scraped + 1
    /\ attempt' = 1
    /\ outcomes' = <<>>
    /\ sleeps' = <<>>
    /\ fetched' = fetched \cup {id}
    /\ pc' = "fetch"
    /\ inFlight' = inFlight + 1
    /\ UNCHANGED <<idleVars, batchVars, timers, paced, config, durable, csv, progress,
                   id, result>>

\* lines 139-165: the fetch returns or throws
FetchDone ==
    /\ pc = "fetch"
    /\ \E r \in site :
        LET step == AttemptStep(r, attempt, id) IN
        /\ outcomes' = Append(outcomes, r)
        /\ IF step.return
           THEN /\ result' = step.value
                /\ pc' = "record"
                /\ UNCHANGED <<sleeps, timers>>
           ELSE /\ sleeps' = Append(sleeps, step.sleep)
                /\ timers' = timers + 1
                /\ pc' = "backoff"
                /\ UNCHANGED result
    /\ inFlight' = inFlight - 1
    /\ UNCHANGED <<idleVars, batchVars, paced, config, durable, csv, progress, id,
                   scraped, attempt, fetched>>

\* lines 151-152, 161-162 and 138: the backoff sleep ends, the next attempt
\* starts; falling out of the attempt loop returns undefined, and main dies
\* reading result.error
BackoffDone ==
    /\ pc = "backoff"
    /\ attempt' = attempt + 1
    /\ pc' = IF attempt + 1 <= MAX_RETRIES THEN "fetch" ELSE "fatal"
    /\ timers' = timers - 1
    /\ inFlight' = IF attempt + 1 <= MAX_RETRIES THEN inFlight + 1 ELSE inFlight
    /\ UNCHANGED <<idleVars, batchVars, paced, config, durable, csv, progress, id,
                   scraped, result, outcomes, sleeps, fetched>>

\* a failed id ends the run instead of being recorded
MutRecord ==
    /\ pc = "record"
    /\ IF Truthy(result.error)
       THEN pc' = "fatal" /\ UNCHANGED <<progress, csv>>
       ELSE /\ progress' = Put(progress, PropKey(id), Outcome(result))
            /\ csv' = IF Outcome(result).status = "ok"
                      THEN Append(csv, CsvRow(result)) ELSE csv
            /\ pc' = "save"
    /\ paced' = 0
    /\ UNCHANGED <<idleVars, batchVars, inFlight, timers, config, durable, id, scraped,
                   result, attempt, outcomes, sleeps, fetched>>
\* lines 100-113: the outcome is written to the ledger, the record to the sink
Record ==
    /\ pc = "record"
    /\ progress' = Put(progress, PropKey(id), Outcome(result))
    /\ csv' = IF Outcome(result).status = "ok"
              THEN Append(csv, CsvRow(result)) ELSE csv
    /\ pc' = "save"
    /\ paced' = 0
    /\ UNCHANGED <<idleVars, batchVars, inFlight, timers, config, durable, id, scraped,
                   result, attempt, outcomes, sleeps, fetched>>

\* the pacing sleep is started and not awaited
MutSaveEvery ==
    /\ pc = "save"
    /\ durable' = IF ShouldSave(scraped) THEN saveProgress(progress) ELSE durable
    /\ IF id < TO_ID
       THEN /\ timers' = timers + 1
            /\ paced' = paced + 1
       ELSE UNCHANGED <<timers, paced>>
    /\ pc' = "loop"
    /\ id' = id + 1
    /\ result' = NoResult
    /\ attempt' = 0
    /\ outcomes' = <<>>
    /\ sleeps' = <<>>
    /\ UNCHANGED <<idleVars, batchVars, inFlight, config, csv, progress, scraped, fetched>>
\* lines 115-123: the flush every 10 ids, then the pacing sleep or the next id;
\* the iteration's locals go out of scope
SaveEvery ==
    /\ pc = "save"
    /\ durable' = IF ShouldSave(scraped) THEN saveProgress(progress) ELSE durable
    /\ IF id < TO_ID
       THEN /\ pc' = "pacing"
            /\ timers' = timers + 1
            /\ paced' = paced + 1
            /\ UNCHANGED id
       ELSE /\ pc' = "loop"
            /\ id' = id + 1
            /\ UNCHANGED <<timers, paced>>
    /\ result' = NoResult
    /\ attempt' = 0
    /\ outcomes' = <<>>
    /\ sleeps' = <<>>
    /\ UNCHANGED <<idleVars, batchVars, inFlight, config, csv, progress, scraped, fetched>>

\* lines 122 and 92: the pacing sleep ends
PacingDone ==
    /\ pc = "pacing"
    /\ id' = id + 1
    /\ pc' = "loop"
    /\ timers' = timers - 1
    /\ UNCHANGED <<idleVars, batchVars, inFlight, paced, config, durable, csv, progress,
                   scraped, result, attempt, outcomes, sleeps, fetched>>

MutFinish ==
    /\ pc = "loop"
    /\ id > TO_ID
    /\ durable' = durable
    /\ pc' = "done"
    /\ UNCHANGED <<idleVars, batchVars, awaitVars, config, csv, progress, id, scraped,
                   result, attempt, outcomes, sleeps, fetched>>
\* lines 92 and 126: the range is exhausted, the ledger is flushed
Finish ==
    /\ pc = "loop"
    /\ id > TO_ID
    /\ durable' = saveProgress(progress)
    /\ pc' = "done"
    /\ UNCHANGED <<idleVars, batchVars, awaitVars, config, csv, progress, id, scraped,
                   result, attempt, outcomes, sleeps, fetched>>

Next ==
    \/ Skip
    \/ StartScrape
    \/ FetchDone
    \/ BackoffDone
    \/ Record
    \/ SaveEvery
    \/ PacingDone
    \/ Finish

Spec == Init /\ [][Next]_vars

\* Every fetch returns or throws and every sleep ends.
FairSpec == Spec /\ WF_vars(Next)

(* ---------------------------------------------------------------------- *)
(* The batch requests explored                                             *)
(* ---------------------------------------------------------------------- *)
RawItems == {Num(n) : n \in 0..MaxBatchId} \cup {NotANumber}

RawArrays == UNION {[1..n -> RawItems] : n \in 0..(MAX_BATCH_SIZE + 1)}

Requests ==
    {[method |-> "POST", isArray |-> TRUE, sellerIds |-> a] : a \in RawArrays}
        \cup {[method |-> "GET", isArray |-> TRUE, sellerIds |-> <<Num(1)>>],
              [method |-> "POST", isArray |-> FALSE, sellerIds |-> <<>>]}

BatchSite == {ShopPage, HttpResponse(200, NoHtml), NotFound, TimedOut, FetchFailed}

CrawlOff ==
    /\ FROM_ID = 1
    /\ TO_ID = 0
    /\ site = {}
    /\ durable = NoFile
    /\ csv = <<>>
    /\ loaded = EmptyLedger
    /\ csvLoaded = 0
    /\ progress = EmptyLedger
    /\ id = 0
    /\ scraped = 0
    /\ result = NoResult
    /\ attempt = 0
    /\ outcomes = <<>>
    /\ sleeps = <<>>
    /\ fetched = {}
    /\ pc = "off"

\* a request arrives
BatchInit ==
    /\ CrawlOff
    /\ NoAwait
    /\ IdleOff
    /\ req \in Requests
    /\ ids = <<>>
    /\ i = 0
    /\ results = <<>>
    /\ issued = <<>>
    /\ given = <<>>
    /\ answer = NoAnswer
    /\ hpc = "request"

\* lines 20-41: the request is rejected
Reject ==
    /\ hpc = "request"
    /\ Rejection(req) # NoAnswer
    /\ answer' = Rejection(req)
    /\ hpc' = "sent"
    /\ UNCHANGED <<idleVars, crawlVars, awaitVars, req, ids, i, results, issued, given>>

\* lines 38-59: the request is accepted and the first fetch issued; i counts
\* from 0 as in the code, ids[i] is ids[i + 1] here
Accept ==
    /\ hpc = "request"
    /\ Rejection(req) = NoAnswer
    /\ ids' = [k \in 1..Len(req.sellerIds) |-> parseInt10(req.sellerIds[k])[1]]
    /\ results' = <<>>
    /\ i' = 0
    /\ issued' = <<ids'[1]>>
    /\ hpc' = "fetch"
    /\ inFlight' = inFlight + 1
    /\ UNCHANGED <<idleVars, crawlVars, timers, paced, req, given, answer>>

MutItemDone ==
    /\ hpc = "fetch"
    /\ \E r \in BatchSite :
        /\ given' = Append(given, r)
        /\ results' = Append(results, BatchItem(r, ids[i + 1]))
        /\ IF i < Len(ids) - 1 /\ ~r.threw
           THEN hpc' = "delay" /\ timers' = timers + 1 /\ UNCHANGED answer
           ELSE /\ answer' = Answer(200, "", results')
                /\ hpc' = "sent"
                /\ UNCHANGED timers
    /\ inFlight' = inFlight - 1
    /\ UNCHANGED <<idleVars, crawlVars, paced, req, ids, i, issued>>
\* lines 50-83: the fetch returns or throws, the element is pushed; after the
\* last id the answer is sent
ItemDone ==
    /\ hpc = "fetch"
    /\ \E r \in BatchSite :
        /\ given' = Append(given, r)
        /\ results' = Append(results, BatchItem(r, ids[i + 1]))
        /\ IF i < Len(ids) - 1
           THEN hpc' = "delay" /\ timers' = timers + 1 /\ UNCHANGED answer
           ELSE /\ answer' = Answer(200, "", results')
                /\ hpc' = "sent"
                /\ UNCHANGED timers
    /\ inFlight' = inFlight - 1
    /\ UNCHANGED <<idleVars, crawlVars, paced, req, ids, i, issued>>

\* lines 79, 46-51: the delay ends, the next fetch is issued
DelayDone ==
    /\ hpc = "delay"
    /\ i' = i + 1
    /\ issued' = Append(issued, ids[i + 2])
    /\ hpc' = "fetch"
    /\ timers' = timers - 1
    /\ inFlight' = inFlight + 1
    /\ UNCHANGED <<idleVars, crawlVars, paced, req, ids, results, given, answer>>

BatchNext ==
    \/ Reject
    \/ Accept
    \/ ItemDone
    \/ DelayDone

BatchSpec == BatchInit /\ [][BatchNext]_vars

\* A crawl run, or a batch request being handled.
RunInit ==
    \/ Init
    \/ BatchInit

RunNext ==
    \/ Next
    \/ BatchNext

RunSpec == RunInit /\ [][RunNext]_vars

(* ---------------------------------------------------------------------- *)
(* Crawl runs that are interrupted and re-run over the same files          *)
(* ---------------------------------------------------------------------- *)
\* The first run of a range: no results/progress.json, no rows in the sink.
ResumeInit ==
    /\ Init
    /\ durable = NoFile
    /\ TO_ID <= MaxId

\* The process is killed wherever it is, or has ended, and the same command is
\* run again (main, lines 66-90): what was in memory is lost, the ledger is
\* read from results/progress.json, and the sink is kept as it is (initCsv
\* writes nothing when the file exists).
Rerun ==
    /\ Len(csv) < MaxRows
    /\ loaded' = loadProgress(durable)
    /\ progress' = loadProgress(durable)
    /\ csvLoaded' = Len(csv)
    /\ id' = FROM_ID
    /\ scraped' = 0
    /\ result' = NoResult
    /\ attempt' = 0
    /\ outcomes' = <<>>
    /\ sleeps' = <<>>
    /\ fetched' = {}
    /\ pc' = "loop"
    /\ inFlight' = 0
    /\ timers' = 0
    /\ paced' = 0
    /\ UNCHANGED <<idleVars, batchVars, FROM_ID, TO_ID, site, durable, csv>>

ResumeNext ==
    \/ Next
    \/ Rerun

ResumeSpec == ResumeInit /\ [][ResumeNext]_vars

(* ---------------------------------------------------------------------- *)
(* The two handlers of the API, each with a request                        *)
(* ---------------------------------------------------------------------- *)
GatewayTimeout == HttpResponse(504, NoHtml)
\* the proxy URL of the environment cannot be parsed
BadProxy == Thrown("TypeError", "Invalid URL")

Queries ==
    {Query("GET", Some(item)) : item \in RawItems}
        \cup {Query("GET", Nothing), Query("POST", Some(Num(1)))}

ScrapeSite == {ShopPage, NotFound, GatewayTimeout, TimedOut, FetchFailed, BadProxy}

\* the batch requests of at most two ids
ShortRequests == {r \in Requests : Len(r.sellerIds) <= 2}

\* a request arrives at each handler
ApiInit ==
    /\ CrawlOff
    /\ NoAwait
    /\ req \in ShortRequests
    /\ ids = <<>>
    /\ i = 0
    /\ results = <<>>
    /\ issued = <<>>
    /\ given = <<>>
    /\ answer = NoAnswer
    /\ hpc = "request"
    /\ TextOff
    /\ ExtractOff
    /\ PageOff
    /\ query \in Queries
    /\ upstream = Nothing
    /\ reply = NoReply
    /\ spc = "request"

\* lines 16-29: the request is rejected
ScrapeReject ==
    /\ spc = "request"
    /\ Refusal(query) # NoReply
    /\ reply' = Refusal(query)
    /\ spc' = "sent"
    /\ UNCHANGED <<crawlVars, batchVars, awaitVars, textVars, extractVars, pageVars, query, upstream>>

\* lines 26-32: the request is accepted and the fetch issued
ScrapeAccept ==
    /\ spc = "request"
    /\ Refusal(query) = NoReply
    /\ spc' = "fetch"
    /\ UNCHANGED <<crawlVars, batchVars, awaitVars, textVars, extractVars, pageVars, query, upstream, reply>>

\* lines 32-50: the fetch returns or throws, the answer is sent
ScrapeDone ==
    /\ spc = "fetch"
    /\ \E r \in ScrapeSite :
        /\ upstream' = Some(r)
        /\ reply' = ScrapeReply(r, parseInt10(query.sellerId[1])[1])
    /\ spc' = "sent"
    /\ UNCHANGED <<crawlVars, batchVars, awaitVars, textVars, extractVars, pageVars, query>>

ScrapeNext ==
    \/ ScrapeReject
    \/ ScrapeAccept
    \/ ScrapeDone

ApiNext ==
    \/ BatchNext
    \/ ScrapeNext

ApiSpec == ApiInit /\ [][ApiNext]_vars

(* ---------------------------------------------------------------------- *)
(* cleanText applied to a string, then to what it returned                 *)
(* ---------------------------------------------------------------------- *)
TextAtoms ==
    EntityTails \cup {"<", ">", "&", " ", "\"", "'", "/", "b", EscapedSlash}

Strings == UNION {[1..n -> TextAtoms] : n \in 0..MaxTextLen}

TextInit ==
    /\ CrawlOff
    /\ BatchOff
    /\ NoAwait
    /\ SingleOff
    /\ ExtractOff
    /\ PageOff
    /\ str \in Strings
    /\ cleaner \in {"part_002", "lib"}
    /\ cleaned = <<>>

\* the function is applied to the string, or to what it returned
Normalize ==
    /\ Len(cleaned) < 2
    /\ LET arg == IF cleaned = <<>> THEN str ELSE cleaned[Len(cleaned)]
       IN  cleaned' = Append(cleaned, IF cleaner = "lib" THEN cleanTextLib(arg)
                                                          ELSE cleanText(arg))
    /\ UNCHANGED <<crawlVars, batchVars, awaitVars, singleVars, extractVars, pageVars,
                   str, cleaner>>

TextNext == Normalize

TextSpec == TextInit /\ [][TextNext]_vars

(* ---------------------------------------------------------------------- *)
(* extractSellerJson applied to a page                                     *)
(* ---------------------------------------------------------------------- *)
\* JSON text of a string: a slash is written \u002F
Escape(text) ==
    [k \in 1..Len(text) |-> IF text[k] = "/" THEN EscapedSlash ELSE text[k]]

\* JSON text of a value, and of the members of an object from the k-th on
RECURSIVE Serialize(_)
RECURSIVE SerializeMembers(_, _)
Serialize(val) ==
    IF val.kind = "string" THEN <<Lit(Escape(val.text))>>
    ELSE <<Punct("{")>> \o SerializeMembers(val.members, 1) \o <<Punct("}")>>

SerializeMembers(ms, k) ==
    IF k > Len(ms) THEN <<>>
    ELSE (IF k > 1 THEN <<Punct(",")>> ELSE <<>>)
            \o <<Lit(Escape(ms[k].key)), Punct(":")>>
            \o Serialize(ms[k].value)
            \o SerializeMembers(ms, k + 1)

ContentAtoms == {"x", "{", "}", "/"}
Texts == UNION {[1..n -> ContentAtoms] : n \in 0..MaxContentLen}

\* the values nested at most d objects deep
RECURSIVE Values(_)
Values(d) ==
    IF d = 0 THEN {StrVal(text) : text \in Texts}
    ELSE Values(d - 1) \cup {ObjVal(<<>>)}
            \cup {ObjVal(<<Member(<<"k">>, val)>>) : val \in Values(d - 1)}

\* a seller object as the page embeds it
Seller(name, more) ==
    ObjVal(<<Member(<<"__typename">>, StrVal(<<"GraphqlMarketplaceSeller">>)),
             Member(<<"id">>, StrVal(<<"7">>)),
             Member(<<"name">>, StrVal(name))>> \o more)

Sellers ==
    {Seller(name, more) :
        name \in {<<"Shop">>, <<>>},
        more \in {<<>>} \cup {<<Member(<<"k">>, val)>> : val \in Values(MaxDepth)}}

\* what precedes the seller object in the script, and what may follow it
Before == <<Punct("{"), Word("seller"), Punct(":")>>
Tails ==
    {<<Punct("}")>>,
     <<Punct(","), Word("optimizelyDataFile"), Punct(":"), Word("x"), Punct("}")>>,
     <<Punct(","), Word("page"), Punct(":"), Punct("{"), Word("__typename"),
       Punct(":"), Word("Page"), Punct("}"), Punct("}")>>}

\* the start of an object with the anchor, or with something like it
Anchor(type, sid) ==
    <<Punct("{"), Word("__typename"), Punct(":"), Word(type), Punct(","),
      Word("id"), Punct(":"), Word(sid), Punct(","), Word("name"), Punct(":"),
      Word("Shop")>>
Anchors ==
    {Anchor("GraphqlMarketplaceSeller", "7"),
     Anchor("GraphqlMarketplaceSeller", "x"),
     Anchor("GraphqlSellerContact", "7")}

RestTokens ==
    {Punct("{"), Punct("}"), Punct(","), Punct(":"), Word("k"), Word("{"), Word("}")}
Rests == UNION {[1..n -> RestTokens] : n \in 0..MaxRestLen}

\* a page that embeds a well-formed seller object, or any tokens after an
\* anchor
ExtractInit ==
    /\ CrawlOff
    /\ BatchOff
    /\ NoAwait
    /\ SingleOff
    /\ TextOff
    /\ PageOff
    /\ \/ \E obj \in Sellers, tail \in Tails :
            /\ source = Before \o Serialize(obj) \o tail
            /\ embedded = obj
       \/ \E anchor \in Anchors, rest \in Rests, tail \in Tails :
            /\ source = Before \o anchor \o rest \o tail
            /\ embedded = Null
    /\ extracted = NotExtracted

\* line 122: extractSellerJson(html)
Extract ==
    /\ ~extracted.done
    /\ extracted' = extractSellerJson(source)
    /\ UNCHANGED <<crawlVars, batchVars, awaitVars, singleVars, textVars, pageVars,
                   source, embedded>>

ExtractNext == Extract

ExtractSpec == ExtractInit /\ [][ExtractNext]_vars

(* ---------------------------------------------------------------------- *)
(* parseSellerPage applied to a page                                       *)
(* ---------------------------------------------------------------------- *)
ShopMail == <<"info", "@", "shop", ".nl">>
NoReplyMail == <<"NoReply", "@", "shop", ".nl">>
SentryMail == <<"ops", "@", "sentry", ".io">>
OwnMail == <<"info", "@", "mediamarkt", ".nl">>

Contact(email, phone) ==
    Member(<<"contactInfoForCustomers">>,
           ObjVal(<<Member(<<"email">>, StrVal(email)),
                    Member(<<"phone">>, StrVal(phone))>>))
Legal(imprint) ==
    Member(<<"legalInformation">>, ObjVal(<<Member(<<"imprint">>, StrVal(imprint))>>))
ContactInformation(fax) ==
    Member(<<"contactInformation">>, ObjVal(<<Member(<<"fax">>, StrVal(fax))>>))

\* the script of a page that embeds the seller object
Script(obj) ==
    Before \o Serialize(obj)
        \o <<Punct(","), Word("optimizelyDataFile"), Punct(":"), Word("x"), Punct("}")>>

Scripts ==
    {<<>>,
     Script(Seller(<<>>, <<>>)),
     Script(Seller(<<"Shop">>, <<>>)),
     Script(Seller(<<"Shop">>, <<Contact(ShopMail, <<"030">>)>>)),
     Script(Seller(<<"Shop">>, <<Contact(OwnMail, <<>>)>>)),
     Script(Seller(<<"Shop">>,
                   <<Legal(<<"KvK", ":", " ", "87654321", " ", "BTW", " ", "NL123B01">>),
                     ContactInformation(<<"030">>)>>))}

Headings == {Nothing, Some(<<" ", "<", "b", ">", "Shop", "&", "amp;", "Shop">>)}

TelLinks == {Nothing, Some(<<"undefined">>), Some(<<" ", "020">>)}

DlPairs ==
    {Pair(<<"E-mail">>, ShopMail),
     Pair(<<"E-mail">>, NoReplyMail),
     Pair(<<"E-mail">>, <<"undefined">>),
     Pair(<<"Fax">>, <<"020">>),
     Pair(<<"<", "b", ">", "Fax">>, <<"12345678", "&", "nbsp;">>),
     Pair(<<"Fax">>, <<" ">>),
     Pair(<<"BTW-nummer">>, <<"NL123B01">>),
     Pair(<<"Kamer van Koophandel nummer">>, <<"12345678">>)}

DlLists == UNION {[1..n -> DlPairs] : n \in 0..MaxPairs}

FreeTexts ==
    {<<>>,
     SentryMail \o <<" ">> \o ShopMail,
     NoReplyMail \o <<" ">> \o SentryMail}

PageInit ==
    /\ CrawlOff
    /\ BatchOff
    /\ NoAwait
    /\ SingleOff
    /\ TextOff
    /\ ExtractOff
    /\ \E script \in Scripts, h1 \in Headings, tel \in TelLinks, dl \in DlLists,
          text \in FreeTexts :
            page = Page(script, h1, tel, dl, text)
    /\ parser \in {"part_002", "lib"}
    /\ record = NoRecord

\* parseSellerPage(html, sellerId)
Parse ==
    /\ record = NoRecord
    /\ record' = IF parser = "lib" THEN parseSellerPageLib(page, 7)
                                   ELSE parseSellerPageFull(page, 7)
    /\ UNCHANGED <<crawlVars, batchVars, awaitVars, singleVars, textVars, extractVars,
                   page, parser>>

PageNext == Parse

PageSpec == PageInit /\ [][PageNext]_vars

(* ---------------------------------------------------------------------- *)
(* Properties of the crawl driver                                          *)
(* ---------------------------------------------------------------------- *)
Range == FROM_ID..TO_ID

InLedger(p, n) == PropKey(n) \in DOMAIN p

\* the rows the run has appended to the sink for seller n
RowsFor(n) == {j \in (csvLoaded + 1)..Len(csv) : csv[j].sellerId = n}

\* main has just written the ledger entry of the current id
Recorded == pc = "save"

\* a fetched page that carries a business name
NamedPage(r) ==
    ~r.threw /\ r.status = 200 /\ r.html.h1Match /\ r.html.h1Text # ""

\* C1: an id of the range that is in the ledger loaded at start, whatever
\* its status, is never fetched and keeps its entry; a range that is wholly
\* in the loaded ledger is crawled with no fetch at all.
Thm_C1_LoadedNeverRefetched ==
    /\ \A n \in Range :
          InLedger(loaded, n) =>
              /\ n \notin fetched
              /\ InLedger(progress, n)
              /\ progress[PropKey(n)] = loaded[PropKey(n)]
    /\ (\A n \in Range : InLedger(loaded, n)) => fetched = {} /\ scraped = 0

Wit_C1_AllStatusesSkipped ==
    /\ pc = "done"
    /\ \A n \in Range : InLedger(loaded, n)
    /\ {loaded[PropKey(n)].status : n \in Range} = {"ok", "empty", "error"}
    /\ fetched = {}

\* the attempts for the current id began: failure, failure, named page
FailFailShop ==
    /\ Len(outcomes) >= 3
    /\ Failed(outcomes[1])
    /\ Failed(outcomes[2])
    /\ NamedPage(outcomes[3])

\* C2: two failed attempts followed by a page with a business name give
\* exactly three fetches, the backoff sleeps 5000 ms then 10000 ms and no
\* other, and the status ok.
Thm_C2_ThirdAttemptSucceeds ==
    FailFailShop =>
        /\ Len(outcomes) = 3
        /\ attempt = 3
        /\ pc \notin {"fetch", "backoff", "fatal"}
        /\ sleeps = <<5000, 10000>>
        /\ Recorded => progress[PropKey(id)] = Entry("ok", "")

Wit_C2_FailFailShop ==
    /\ Recorded
    /\ FailFailShop
    /\ outcomes[1] = ServerError
    /\ outcomes[2] = TimedOut

\* C3: a 404 on any attempt ends scrapeSeller at once: no sleep and no fetch
\* follows it, the id is recorded empty and no row is appended for it.
Thm_C3_NotFoundIsEmpty ==
    \A k \in 1..Len(outcomes) :
        (~outcomes[k].threw /\ outcomes[k].status = 404) =>
            /\ k = Len(outcomes)
            /\ Len(sleeps) = k - 1
            /\ attempt = k
            /\ pc \notin {"fetch", "backoff", "fatal"}
            /\ Recorded =>
                  /\ progress[PropKey(id)] = Entry("empty", "")
                  /\ RowsFor(id) = {}

Wit_C3_NotFoundOnRetry ==
    /\ Recorded
    /\ Len(outcomes) = 2
    /\ outcomes[2] = NotFound
    /\ sleeps = <<5000>>

\* the description of the third failure, as the ledger should carry it
LastFailure ==
    IF outcomes[3] = ServerError THEN "HTTP 500"
    ELSE IF outcomes[3] = Forbidden THEN "HTTP 403"
    ELSE IF outcomes[3] = FetchFailed THEN "fetch failed"
    ELSE "The operation was aborted due to timeout"

\* C4: at most three fetches per id; the sleep after failed attempt k (k = 1,
\* 2) is k * 5000 ms and none follows the third; three failed attempts are
\* recorded as error with the description of the last failure.
Thm_C4_RetryBudget ==
    /\ attempt <= 3
    /\ Len(outcomes) <= 3
    /\ Len(sleeps) <= 2
    /\ \A k \in 1..Len(sleeps) : sleeps[k] = k * 5000 /\ Failed(outcomes[k])
    /\ pc = "backoff" => Len(sleeps) = Len(outcomes)
    /\ (Len(outcomes) = 3 /\ \A k \in 1..3 : Failed(outcomes[k])) =>
          /\ pc \notin {"fetch", "backoff", "fatal"}
          /\ Len(sleeps) = 2
          /\ Recorded => progress[PropKey(id)] = Entry("error", LastFailure)

Wit_C4_ThreeFailures ==
    /\ Recorded
    /\ outcomes = <<ServerError, FetchFailed, TimedOut>>
    /\ progress[PropKey(id)].status = "error"

\* C5: a fetched page without business name is recorded empty with no row,
\* one with a business name is recorded ok with exactly one row; an id the
\* run recorded as empty or error has no row, one recorded ok has one.
Thm_C5_RowIffOk ==
    /\ \A n \in fetched :
          InLedger(progress, n) =>
              Cardinality(RowsFor(n)) =
                  IF progress[PropKey(n)].status = "ok" THEN 1 ELSE 0
    /\ \A n \in Range : n \notin fetched \/ ~InLedger(progress, n) => RowsFor(n) = {}
    /\ (Recorded /\ ~outcomes[Len(outcomes)].threw
            /\ outcomes[Len(outcomes)].status = 200) =>
          /\ progress[PropKey(id)].status =
                 IF NamedPage(outcomes[Len(outcomes)]) THEN "ok" ELSE "empty"
          /\ NamedPage(outcomes[Len(outcomes)]) =>
                 csv[Len(csv)] = [sellerId |-> id, businessName |-> "Shop"]

Wit_C5_EmptyThenOk ==
    /\ Recorded
    /\ NamedPage(outcomes[Len(outcomes)])
    /\ \E n \in fetched :
          /\ n < id
          /\ progress[PropKey(n)].status = "empty"
          /\ RowsFor(n) = {}

\* a step keeps every entry of the in-memory ledger as it is
LedgerGrows ==
    \A k \in DOMAIN progress : k \in DOMAIN progress' /\ progress'[k] = progress[k]

\* C6: the in-memory ledger only grows: no entry is removed or changed, an
\* entry is written only for an id that has none, and every entry the run
\* writes has the status ok, empty or error.
Thm_C6_LedgerMonotonic ==
    /\ [][LedgerGrows]_vars
    /\ [](pc \in {"fetch", "backoff", "record"} => ~InLedger(progress, id))
    /\ [](\A k \in DOMAIN progress \ DOMAIN loaded :
              progress[k].status \in {"ok", "empty", "error"})

Wit_C6_GrownLedger ==
    /\ pc = "done"
    /\ DOMAIN loaded # {}
    /\ Cardinality(DOMAIN progress \ DOMAIN loaded) >= 2

\* the ids in the in-memory ledger and not in the file
Unsaved == DOMAIN progress \ DOMAIN durable.data

\* C7: at most 10 ids recorded by the run are missing from the durable
\* ledger, and the durable ledger is the in-memory ledger as it was when
\* loaded or at a flush.
Thm_C7_AtMostTenUnsaved ==
    /\ Cardinality(Unsaved) <= 10
    /\ \E m \in (FROM_ID - 1)..TO_ID :
          durable.data =
              Restrict(progress, DOMAIN loaded \cup (DOMAIN progress \cap Keys(FROM_ID..m)))
    /\ \/ Cardinality(DOMAIN durable.data \ DOMAIN loaded) % 10 = 0
       \/ pc = "done"

Wit_C7_TenUnsaved ==
    /\ Cardinality(Unsaved) = 10
    /\ pc = "save"

\* C8: when the range is exhausted the durable ledger is the in-memory one,
\* whatever the number of ids processed.
Thm_C8_FinalFlush ==
    pc = "done" => durable.exists /\ durable.data = progress

Wit_C8_OddCount ==
    /\ pc = "done"
    /\ scraped = 2
    /\ durable.data # loaded

\* C9: the run never dies on a failed id, and, every fetch returning and
\* every sleep ending, it ends with every id of the range in the ledger.
Thm_C9_RunCompletes ==
    /\ [](pc # "fatal")
    /\ <>(pc = "done" /\ \A n \in Range : InLedger(progress, n))

Wit_C9_GoesOnAfterError ==
    /\ pc = "done"
    /\ \E n \in fetched, m \in fetched :
          /\ n < m
          /\ progress[PropKey(n)].status = "error"
          /\ progress[PropKey(m)].status = "ok"

(* ---------------------------------------------------------------------- *)
(* Properties of the batch handler                                         *)
(* ---------------------------------------------------------------------- *)
\* a request the handler's contract calls valid: 1 to 5 positive integers
ValidBatch ==
    /\ req.method = "POST"
    /\ req.isArray
    /\ Len(req.sellerIds) \in 1..5
    /\ \A k \in 1..Len(req.sellerIds) : req.sellerIds[k].isNum /\ req.sellerIds[k].n >= 1

\* the requested ids, in request order
Requested == [k \in 1..Len(req.sellerIds) |-> req.sellerIds[k].n]

\* C10: a valid batch of n ids gets one fetch per id, in request order, and
\* the answer 200 with n results, the k-th for the k-th id, a parsed record
\* when the fetch gave a page and an error object otherwise; no outcome of
\* one id keeps the later ids from being fetched.
Thm_C10_BatchOnePerId ==
    ValidBatch =>
        /\ hpc # "request" =>
              /\ Len(issued) <= Len(Requested)
              /\ issued = SubSeq(Requested, 1, Len(issued))
              /\ Len(given) = Len(issued) - (IF hpc = "fetch" THEN 1 ELSE 0)
              /\ Len(results) = Len(given)
              /\ \A k \in 1..Len(results) :
                    /\ results[k].sellerId = Requested[k]
                    /\ IF ~given[k].threw /\ given[k].status = 200
                       THEN results[k].error = Nothing /\ results[k].businessName # Nothing
                       ELSE results[k].error # Nothing
        /\ hpc = "sent" =>
              /\ answer.status = 200
              /\ answer.results = results
              /\ issued = Requested

Wit_C10_FailureInTheMiddle ==
    /\ hpc = "sent"
    /\ Len(results) = 5
    /\ given[2] = TimedOut
    /\ given[3] = NotFound
    /\ given[4] = FetchFailed
    /\ results[5].error = Nothing
    /\ results[5].sellerId = 2
    /\ results[1].sellerId = 1

(* ---------------------------------------------------------------------- *)
(* Properties of the two handlers and of the pending awaits                *)
(* ---------------------------------------------------------------------- *)
\* the fetch of the scrape handler has returned or thrown
Answered == spc = "sent" /\ upstream # Nothing

Expired(r) == r.threw /\ r.name = "TimeoutError"

\* C11: a fetch whose deadline expired is answered 504 with the seller ID by
\* the scrape handler and gives the error 'Timeout' in the batch; another
\* thrown error is answered 500, or gives its own message in the batch;
\* nothing but an expired deadline gives the output of an expired deadline.
Thm_C11_TimeoutIsDistinct ==
    /\ Answered =>
          LET r == upstream[1]
              sid == Some(parseInt10(query.sellerId[1])[1])
          IN  /\ Expired(r) =>
                    /\ reply.status = 504
                    /\ reply.sellerId = sid
              /\ r.threw /\ ~Expired(r) =>
                    /\ reply.status = 500
                    /\ reply.error = r.message
                    /\ reply.sellerId = sid
              /\ Expired(r) <=> reply.error = "Request to MediaMarkt timed out"
              /\ r.threw => (Expired(r) <=> reply.status = 504)
    /\ \A k \in 1..Len(results) :
          /\ Expired(given[k]) <=> results[k].error = Some("Timeout")
          /\ given[k].threw /\ ~Expired(given[k]) =>
                results[k].error = Some(given[k].message)

\* the scrape handler has answered an expired deadline, and the batch holds
\* an expired deadline next to another thrown error
Wit_C11_BothKinds ==
    /\ Answered
    /\ upstream[1] = TimedOut
    /\ reply.status = 504
    /\ Len(results) = 2
    /\ given = <<TimedOut, FetchFailed>>
    /\ results[1].error = Some("Timeout")
    /\ results[2].error = Some("fetch failed")

\* the scrape handler has answered a thrown error that is no expired deadline
Wit_C11_OtherError ==
    /\ Answered
    /\ upstream[1] = BadProxy
    /\ reply.status = 500

\* C12: in a crawl run and in a batch request at most one fetch is in
\* flight, and no fetch is in flight while a backoff or pacing sleep is
\* pending: a fetch starts only once the fetch before it has settled and the
\* sleep that followed it has ended.
Thm_C12_OneAwaitAtATime ==
    /\ inFlight \in {0, 1}
    /\ timers \in {0, 1}
    /\ inFlight + timers <= 1
    /\ inFlight = 1 <=> (pc = "fetch" \/ hpc = "fetch")
    /\ timers = 1 <=> (pc \in {"backoff", "pacing"} \/ hpc = "delay")

\* the second id of a run is being fetched for the second time: a pacing
\* sleep and a backoff sleep have ended before this fetch
Wit_C12_RetryAfterSleeps ==
    /\ pc = "fetch"
    /\ scraped = 2
    /\ attempt = 2
    /\ Len(sleeps) = 1
    /\ inFlight = 1
    /\ timers = 0

\* the second id of a batch is being fetched after the delay
Wit_C12_SecondOfBatch ==
    /\ hpc = "fetch"
    /\ i = 1
    /\ Len(given) = 1
    /\ inFlight = 1
    /\ timers = 0

\* C13: between the processing of two successive ids the driver starts the
\* pacing sleep exactly once; after the last id it processes it starts none
\* before the final flush; while the loop looks at an id, skipped or not, no
\* sleep is pending.
Cex_C13_NoPacingAfterLastProcessed ==
    /\ (pc \in {"fetch", "backoff", "record"} /\ scraped > 1) => paced = 1
    /\ pc = "loop" => timers = 0
    /\ pc = "done" => paced = 0

(* ---------------------------------------------------------------------- *)
(* Properties of the parser                                                *)
(* ---------------------------------------------------------------------- *)
\* C17: cleanText applied to what cleanText returned returns it unchanged,
\* for every string, entity-encoded markup and doubly encoded entities
\* included.
Cex_C17_CleanTextIdempotent ==
    Len(cleaned) = 2 => cleaned[2] = cleaned[1]

\* how far extractSellerJson gets on the page at hand
Stage ==
    LET m == sellerMatch(source)
        js == jsonStr(source, m)
        end == BraceScan(js, 1, 1, 0)
    IN  IF m.a = 0 THEN "no anchor"
        ELSE IF end = NoEnd THEN "unbalanced"
        ELSE IF JSONparse(Substring(js, end)).threw THEN "invalid"
        ELSE "parsed"

\* C16: extractSellerJson never throws; it returns null when the anchor
\* pattern does not match, when the brace depth never returns to zero, and
\* when the bounded substring is not valid JSON, and an object otherwise.
Thm_C16_ExtractNeverThrows ==
    extracted.done =>
        /\ ~extracted.threw
        /\ extracted.value.kind = IF Stage = "parsed" THEN "object" ELSE "null"

\* the bounded substring of a page with an anchor was no valid JSON
Wit_C16_InvalidJson ==
    /\ extracted.done
    /\ Stage = "invalid"
    /\ extracted.value = Null

\* the anchor matched and the depth never came back to zero
Wit_C16_Unbalanced ==
    /\ extracted.done
    /\ Stage = "unbalanced"
    /\ extracted.value = Null

\* C20: from a page that embeds a well-formed seller object, anchored by
\* the type discriminator, id and name and followed by what ends the
\* match, extractSellerJson returns exactly that object, whatever the
\* nesting of its inner objects and the content of its strings.
Cex_C20_ExactObject ==
    (extracted.done /\ embedded # Null /\ Stage # "no anchor") =>
        extracted.value = embedded

\* parseSellerPage has returned
ParsedPage == record # NoRecord

\* the exclusion list of the parser at hand
Exclusions == IF parser = "lib" THEN excludePatternsLib ELSE excludePatterns

\* every email-shaped string of the page holds an entry of the list
AllExcluded ==
    LET found == EmailScan(PageText(page), 1)
    IN  \A k \in 1..Len(found) : HasExcluded(found[k], Exclusions)

\* C14: the email of the record holds no entry of the exclusion list,
\* whichever source supplied it, and it is empty when every email-shaped
\* string of the page is excluded.
Cex_C14_EmailNeverExcluded ==
    ParsedPage =>
        /\ ~HasExcluded(record.email, Exclusions)
        /\ AllExcluded => record.email = <<>>

Sentinels == {<<"undefined">>, <<"null">>}

\* C15: neither the email nor the phone of the record is "undefined" or
\* "null", whichever source supplied it.
Cex_C15_NoSentinel ==
    ParsedPage =>
        /\ record.email \notin Sentinels
        /\ record.phone \notin Sentinels

\* the sources of the chains, for the page at hand
EmbeddedJson == extractSellerJson(page.script).value
EmbeddedContact == Get(EmbeddedJson, "contactInfoForCustomers")
EmbeddedImprint ==
    parseImprint(TextAt(Get(EmbeddedJson, "legalInformation"), "imprint"))
Heading == IF page.h1 = Nothing THEN <<>> ELSE cleanText(page.h1[1])
Labeled(patterns) == findValue(Harvest(page.dl, NoExtras, TRUE), patterns)

\* C18: businessName is the embedded name, else the heading; phone the
\* embedded contact phone, else the tel: link; email the embedded contact
\* email, else the labeled pair with '@', else the scanned address;
\* kvkNumber and vatNumber the labeled pair, else the imprint pattern; each
\* is the empty string when no source yields a value.
Thm_C18_PrecedenceChains ==
    (ParsedPage /\ parser = "part_002") =>
        /\ record.businessName =
              (IF TextAt(EmbeddedJson, "name") # <<>> THEN TextAt(EmbeddedJson, "name")
               ELSE IF Heading # <<>> THEN Heading
               ELSE <<>>)
        /\ record.phone =
              (IF TextAt(EmbeddedContact, "phone") # <<>>
               THEN TextAt(EmbeddedContact, "phone")
               ELSE IF TelPhone(page) # <<>> THEN TelPhone(page)
               ELSE <<>>)
        /\ record.email =
              (IF TextAt(EmbeddedContact, "email") # <<>>
               THEN TextAt(EmbeddedContact, "email")
               ELSE IF LabeledEmail(page.dl) # <<>> THEN LabeledEmail(page.dl)
               ELSE IF ScannedEmail(page, excludePatterns) # <<>>
               THEN ScannedEmail(page, excludePatterns)
               ELSE <<>>)
        /\ record.kvkNumber =
              (IF Labeled(kvkPatterns) # <<>> THEN Labeled(kvkPatterns)
               ELSE IF EmbeddedImprint.kvkNumber # <<>> THEN EmbeddedImprint.kvkNumber
               ELSE <<>>)
        /\ record.vatNumber =
              (IF Labeled(vatPatterns) # <<>> THEN Labeled(vatPatterns)
               ELSE IF EmbeddedImprint.vatNumber # <<>> THEN EmbeddedImprint.vatNumber
               ELSE <<>>)

\* the embedded name wins over a heading that differs from it, the labeled
\* VAT number over the one of the imprint; the phone, the email and the KvK
\* number come from the last source of their chains
Wit_C18_FirstAndLastSources ==
    /\ ParsedPage
    /\ parser = "part_002"
    /\ record.businessName = <<"Shop">>
    /\ Heading = <<"Shop", "&", "Shop">>
    /\ record.phone = <<"020">>
    /\ TextAt(EmbeddedContact, "phone") = <<>>
    /\ record.email = ShopMail
    /\ LabeledEmail(page.dl) = <<>>
    /\ record.kvkNumber = <<"87654321">>
    /\ Labeled(kvkPatterns) = <<>>
    /\ record.vatNumber = <<"NL123B01">>
    /\ Labeled(vatPatterns) = <<"NL123B01">>
    /\ EmbeddedImprint.vatNumber = <<"NL123B01">>

\* the pairs of the page that have a label and a value once normalized
Kept(k) ==
    /\ (IF parser = "lib" THEN cleanTextLib(page.dl[k].dt)
                          ELSE cleanText(page.dl[k].dt)) # <<>>
    /\ (IF parser = "lib" THEN cleanTextLib(page.dl[k].dd)
                          ELSE cleanText(page.dl[k].dd)) # <<>>
LabelOf(k) ==
    IF parser = "lib" THEN cleanTextLib(page.dl[k].dt) ELSE cleanText(page.dl[k].dt)
ValueOf(k) ==
    IF parser = "lib" THEN cleanTextLib(page.dl[k].dd) ELSE cleanText(page.dl[k].dd)

\* C19: every pair harvested from the page is in sellerDataSection under
\* its normalized label with its normalized value, and of the pairs of one
\* label the last is the one kept.
Cex_C19_EveryPairInExtras ==
    ParsedPage =>
        \A k \in 1..Len(page.dl) :
            (/\ Kept(k)
             /\ \A j \in (k + 1)..Len(page.dl) : Kept(j) => LabelOf(j) # LabelOf(k))
                => /\ LabelOf(k) \in DOMAIN record.sellerDataSection
                   /\ record.sellerDataSection[LabelOf(k)] = ValueOf(k)

(* ---------------------------------------------------------------------- *)
(* C21: resuming and the sink                                              *)
(* ---------------------------------------------------------------------- *)
\* The rows of the sink that are of seller n.
RowsOf(n) == {k \in 1..Len(csv) : csv[k].sellerId = n}

\* C21: over runs of the same range that share results/progress.json and the
\* sink, each interrupted anywhere and re-run, a seller id is recorded at most
\* once; a row is appended only when an id is recorded, so no seller id has
\* more than one row in the sink.
Cex_C21_AtMostOneRowPerSeller ==
    \A n \in 1..MaxId : Cardinality(RowsOf(n)) <= 1

====
